---- MODULE Spec2Model ----
(***************************************************************************)
(* State-machine model of SubprocessHandler (src/_sphandler.py): the task  *)
(* ledger (task_information), the durable completed-task log, the slot     *)
(* pool and the run loop  _check_memory_usage -> _poll_subprocesses ->     *)
(* _create_subprocesses.  Worker processes are separate OS processes and   *)
(* exit on their own; the control thread is the only writer of the handler *)
(* state.                                                                  *)
(*                                                                         *)
(* Memory is counted in units of the hard-coded expected_memory of a new   *)
(* task (0.1 GB, _sphandler.py line 89), so that value is 1 here.  Task    *)
(* ids are the 0-based row labels of the task_information dataframe, slot  *)
(* indices are 0-based and -1 is the free-slot sentinel, as in the code.   *)
(*                                                                         *)
(* A second specification, ProcessSpec, is the state machine of one        *)
(* SmartProcess handle (src/src/smartmultiprocessing/process.py): the      *)
(* handle, the OS process behind it and the one-way result pipe between    *)
(* them.  The handler does not use SmartProcess, so each specification     *)
(* leaves the other component's variables as they are.                     *)
(***************************************************************************)
EXTENDS Integers, Sequences, FiniteSets, TLC

\* ---- bounds of the model -------------------------------------------------
MaxThreads == 2        \* config['max_threads'] ranges over 1..MaxThreads
MaxTasks == 4          \* len(config['args']) ranges over 1..MaxTasks
MaxMemory == 3         \* config['max_memory'] ranges over 1..MaxMemory
MaxSample == 4         \* one process's sampled rss ranges over 0..MaxSample
MaxBenchmarking == 1   \* config['benchmarking_tasks'] ranges over 0..MaxBenchmarking
ArgBase == 8           \* the configured args values are ArgBase+1, ArgBase+2, ...
MaxValue == 2          \* a payload function returns one of ArgBase .. ArgBase+MaxValue
PipeCapacity == 2      \* bytes the OS buffers in a pipe nobody is reading
MaxQueued == 2         \* update messages a worker has sent that no poll has read yet
MaxChildren == 2       \* processes a worker starts of its own while it runs

\* ---- program constants ---------------------------------------------------
Free == -1                  \* np.full(max_threads, -1): the free-slot sentinel
DefaultExpectedMemory == 1  \* 'expected_memory': 0.1 (the unit of memory here)
FailureExitCode == 2        \* a non-zero exit code of a worker
Unset == -2                 \* self.current_max_threads was never assigned
SIGTERM == 15               \* exitcode -15 after Process.terminate()
SIGKILL == 9                \* exitcode -9 after Process.kill()

VARIABLES
    config,                    \* self.config (read-only after construction)
    log,                       \* rows of <run_name>_completed_tasks.csv, in file order
    current_task_assignments,  \* slot -> task id, or Free
    processes,                 \* slot -> the slot's process entry
    current_max_threads,       \* effective concurrency cap, or Unset
    tasks_total,
    tasks_completed,
    task_information,          \* task id -> ledger row
    process_memory_usage,      \* slot -> last sampled memory
    total_memory_usage,
    expected_memory_usage,
    completed_subprocesses,    \* run-loop locals returned by _poll_subprocesses
    running_subprocesses,
    previous_running_tasks,    \* locals of the mitigation branch (lines 140-141) of
    previous_memory_usages,    \*   the last _check_memory_usage call, <<>> if not set
    pc,                        \* position of the control thread
    raised,                    \* the exception that stopped the run, if any
    killed,                    \* names of the processes the handler has sent SIGKILL, in order
    child_processes,           \* the processes the worker of the handle has started
    frame,                     \* the call in progress on the handle: terminate, kill, resource_usage
    smart_process,             \* a SmartProcess handle and its OS process (process.py)
    returned                   \* how the last call on the handle ended

\* The state of the SubprocessHandler and of its log file.
handler_vars ==
    <<config, log, current_task_assignments, processes, current_max_threads,
      tasks_total, tasks_completed, task_information, process_memory_usage,
      total_memory_usage, expected_memory_usage, completed_subprocesses,
      running_subprocesses, previous_running_tasks, previous_memory_usages,
      pc, raised, killed>>

\* The state of the SmartProcess handle.
process_vars == <<smart_process, returned, child_processes, frame>>

vars == <<handler_vars, process_vars>>

\* ---- helpers ---------------------------------------------------------------
Slots(cfg) == 0 .. (cfg.max_threads - 1)

RECURSIVE SumOver(_, _)
SumOver(f, S) ==
    IF S = {} THEN 0
    ELSE LET x == CHOOSE y \in S : TRUE IN f[x] + SumOver(f, S \ {x})

MaxOf(a, b) == IF a >= b THEN a ELSE b

NoException == [kind |-> "None", slot |-> Free, task |-> Free]

\* self.default_process_dict: no process object; the exit fields describe the
\* OS process once there is one (exited = FALSE <=> exitcode is None).  pipe is
\* the update messages sent to the slot's pipe and not yet received, args the
\* second positional argument the process was made with.
default_process_dict ==
    [process |-> FALSE, exited |-> FALSE, exitcode |-> 0, start_time |-> 0,
     update |-> "-", pipe |-> <<>>, args |-> Free]

\* The handler object and the log file as one record, for the pure translations
\* of the methods below.
Self ==
    [config |-> config, log |-> log,
     current_task_assignments |-> current_task_assignments,
     processes |-> processes,
     current_max_threads |-> current_max_threads,
     tasks_total |-> tasks_total,
     tasks_completed |-> tasks_completed,
     task_information |-> task_information,
     process_memory_usage |-> process_memory_usage,
     total_memory_usage |-> total_memory_usage,
     expected_memory_usage |-> expected_memory_usage,
     completed_subprocesses |-> completed_subprocesses,
     running_subprocesses |-> running_subprocesses,
     previous_running_tasks |-> previous_running_tasks,
     previous_memory_usages |-> previous_memory_usages,
     pc |-> pc, raised |-> raised, killed |-> killed]

\* The handler and the log file are exactly the record s.
Is(s) ==
    /\ config = s.config
    /\ log = s.log
    /\ current_task_assignments = s.current_task_assignments
    /\ processes = s.processes
    /\ current_max_threads = s.current_max_threads
    /\ tasks_total = s.tasks_total
    /\ tasks_completed = s.tasks_completed
    /\ task_information = s.task_information
    /\ process_memory_usage = s.process_memory_usage
    /\ total_memory_usage = s.total_memory_usage
    /\ expected_memory_usage = s.expected_memory_usage
    /\ completed_subprocesses = s.completed_subprocesses
    /\ running_subprocesses = s.running_subprocesses
    /\ previous_running_tasks = s.previous_running_tasks
    /\ previous_memory_usages = s.previous_memory_usages
    /\ pc = s.pc
    /\ raised = s.raised
    /\ killed = s.killed

\* The step leaves the handler and the log file as the record s.
Assign(s) ==
    /\ config' = s.config
    /\ log' = s.log
    /\ current_task_assignments' = s.current_task_assignments
    /\ processes' = s.processes
    /\ current_max_threads' = s.current_max_threads
    /\ tasks_total' = s.tasks_total
    /\ tasks_completed' = s.tasks_completed
    /\ task_information' = s.task_information
    /\ process_memory_usage' = s.process_memory_usage
    /\ total_memory_usage' = s.total_memory_usage
    /\ expected_memory_usage' = s.expected_memory_usage
    /\ completed_subprocesses' = s.completed_subprocesses
    /\ running_subprocesses' = s.running_subprocesses
    /\ previous_running_tasks' = s.previous_running_tasks
    /\ previous_memory_usages' = s.previous_memory_usages
    /\ pc' = s.pc
    /\ raised' = s.raised
    /\ killed' = s.killed

\* ---- construction: __init__ and _generate_task_info_dataframe -------------

\* The text to_csv writes for a non-negative integer: its decimal digits.
RECURSIVE Digits(_)
Digits(n) == IF n < 10 THEN <<n>> ELSE Append(Digits(n \div 10), n % 10)

\* The integer read_csv parses from a cell of decimal digits.
RECURSIVE ParseInt(_)
ParseInt(d) ==
    IF Len(d) = 0 THEN 0
    ELSE 10 * ParseInt(SubSeq(d, 1, Len(d) - 1)) + d[Len(d)]

\* One line of the file, as DataFrame.to_csv(index=False) writes a ledger row:
\* numbers as decimal text (args are integers, line 72), booleans as True/False.
to_csv(row) ==
    [args |-> Digits(row.args),
     expected_memory |-> Digits(row.expected_memory),
     remaining_to_do |-> IF row.remaining_to_do THEN "True" ELSE "False"]

\* The ledger row pd.read_csv builds from one line of the file.
read_csv(line) ==
    [args |-> ParseInt(line.args),
     expected_memory |-> ParseInt(line.expected_memory),
     remaining_to_do |-> (line.remaining_to_do = "True")]

\* existing_task_information['args'].to_numpy(): the args column of the log.
completed_tasks(lg) == {read_csv(lg[i]).args : i \in 1 .. Len(lg)}

\* Mutant: invert=True is missing, the tasks already in the log are selected.
not_completed_without_invert(cfg, lg) ==
    SelectSeq(cfg.args, LAMBDA a : a \in completed_tasks(lg))

\* config['args'][np.isin(config['args'], completed_tasks, invert=True)]
not_completed(cfg, lg) ==
    SelectSeq(cfg.args, LAMBDA a : a \notin completed_tasks(lg))

\* One row of the blank dataframe of lines 83-92.
NewRow(a) ==
    [args |-> a, expected_memory |-> DefaultExpectedMemory, remaining_to_do |-> TRUE]

\* pd.concat([existing_task_information, task_information], ignore_index=True):
\* the rows of the log first, then the rows of the tasks still to run, relabelled
\* 0, 1, 2, ...
generate_task_info_dataframe(cfg, lg) ==
    LET new == not_completed(cfg, lg)
        rows == [i \in 1 .. Len(lg) |-> read_csv(lg[i])]
                    \o [i \in 1 .. Len(new) |-> NewRow(new[i])]
    IN  [k \in 0 .. (Len(rows) - 1) |-> rows[k + 1]]

\* SubprocessHandler(config) against the log file lg, followed by run().
init(cfg, lg) ==
    LET base ==
            [config |-> cfg, log |-> lg,
             current_task_assignments |-> [i \in Slots(cfg) |-> Free],
             processes |-> [i \in Slots(cfg) |-> default_process_dict],
             current_max_threads |->
                 IF cfg.benchmarking_tasks > 0 THEN 1 ELSE Unset,
             tasks_total |-> Len(cfg.args),
             tasks_completed |-> 0,
             task_information |-> <<>>,
             process_memory_usage |-> [i \in Slots(cfg) |-> 0],
             total_memory_usage |-> 0,
             expected_memory_usage |-> 0,
             completed_subprocesses |-> 0,
             running_subprocesses |-> 0,
             previous_running_tasks |-> <<>>,
             previous_memory_usages |-> <<>>,
             pc |-> "loop", raised |-> NoException, killed |-> <<>>]
    IN  IF Len(not_completed(cfg, lg)) = 0
        THEN [base EXCEPT !.pc = "error",
                          !.raised = [NoException EXCEPT !.kind = "RuntimeError: no uncompleted tasks"]]
        ELSE [base EXCEPT !.task_information = generate_task_info_dataframe(cfg, lg)]

\* Mutant: to_csv without mode='a': the file is replaced by the one row.
update_task_info_dataframe_on_disk_overwrites(s, indexes_to_write) ==
    [s EXCEPT !.log = <<to_csv(s.task_information[indexes_to_write])>>]

\* Mutant: nothing is written to the file.
update_task_info_dataframe_on_disk_writes_nothing(s, indexes_to_write) == s

\* ---- _update_task_info_dataframe_on_disk -----------------------------------
\* to_csv(mode='a'): the row is appended, nothing already in the file changes.
update_task_info_dataframe_on_disk(s, indexes_to_write) ==
    [s EXCEPT !.log = Append(@, to_csv(s.task_information[indexes_to_write]))]

\* Mutant: the ledger row is looked up with the slot index, not with the task
\* that was assigned to the slot.
close_subprocess_row_of_slot_index(s, index_to_close, completed) ==
    LET previous_task == index_to_close
        s1 == [s EXCEPT
                 !.current_task_assignments[index_to_close] = Free,
                 !.tasks_completed = @ + 1,
                 !.expected_memory_usage =
                     @ - s.task_information[previous_task].expected_memory,
                 !.process_memory_usage[index_to_close] = 0]
        s2 == IF completed
              THEN update_task_info_dataframe_on_disk(
                       [s1 EXCEPT !.task_information[previous_task].remaining_to_do = FALSE],
                       previous_task)
              ELSE [s1 EXCEPT !.task_information[previous_task].remaining_to_do = TRUE]
    IN  [s2 EXCEPT !.processes[index_to_close] = default_process_dict]

\* ---- _close_subprocess -------------------------------------------------------
close_subprocess(s, index_to_close, completed) ==
    LET previous_task == s.current_task_assignments[index_to_close]
        s1 == [s EXCEPT
                 !.current_task_assignments[index_to_close] = Free,
                 !.tasks_completed = @ + 1,
                 !.expected_memory_usage =
                     @ - s.task_information[previous_task].expected_memory,
                 !.process_memory_usage[index_to_close] = 0]
        s2 == IF completed
              THEN update_task_info_dataframe_on_disk(
                       [s1 EXCEPT !.task_information[previous_task].remaining_to_do = FALSE],
                       previous_task)
              ELSE [s1 EXCEPT !.task_information[previous_task].remaining_to_do = TRUE]
    IN  [s2 EXCEPT !.processes[index_to_close] = default_process_dict]

\* ---- exceptions ---------------------------------------------------------------
\* An exception leaves run(): the control thread stops where it is.
Raise(s, kind, slot, task) ==
    [s EXCEPT !.pc = "error", !.raised = [kind |-> kind, slot |-> slot, task |-> task]]

\* ---- _kill_subprocess --------------------------------------------------------
\* self.processes is a list of max_threads entries: an index past its end raises
\* IndexError, and the entry of a slot that holds no process has 'process' None,
\* on which .kill() raises AttributeError; neither changes anything.  Otherwise
\* the Process object of the slot (made with name=task_index, line 297) is sent
\* SIGKILL, the slot is closed as not completed and its update shows the message.
kill_subprocess(s, index_to_kill, message) ==
    IF index_to_kill \notin Slots(s.config)
    THEN Raise(s, "IndexError", index_to_kill, Free)
    ELSE IF ~s.processes[index_to_kill].process
    THEN Raise(s, "AttributeError", index_to_kill, Free)
    ELSE LET s1 == [s EXCEPT !.killed = Append(@, s.processes[index_to_kill].args)]
             s2 == close_subprocess(s1, index_to_kill, FALSE)
         IN  [s2 EXCEPT !.processes[index_to_kill].update = message]

\* ---- _check_memory_usage -----------------------------------------------------
\* (self.current_task_assignments != -1).nonzero()[0]
running_processes(s) ==
    {i \in Slots(s.config) : s.current_task_assignments[i] # Free}

\* array[indexes] of numpy for a set of indexes: the selected entries as a new
\* array, in index order.
RECURSIVE Take(_, _)
Take(array, indexes) ==
    IF indexes = {} THEN <<>>
    ELSE LET last == CHOOSE i \in indexes : \A j \in indexes : j <= i
         IN  Append(Take(array, indexes \ {last}), array[last])

\* Mutant: an overmemory event kills the running processes before the
\* overmemory_raise_error setting is looked at.
check_memory_usage_kills_before_raising(s, sample) ==
    LET usage == [i \in Slots(s.config) |->
                     IF i \in running_processes(s) THEN sample[i] ELSE 0]
        total == SumOver(usage, Slots(s.config))
        s1 == [s EXCEPT !.process_memory_usage = usage,
                        !.total_memory_usage = total]
        youngest == CHOOSE i \in running_processes(s) :
                        \A j \in running_processes(s) :
                            s.processes[j].start_time <= s.processes[i].start_time
    IN  IF total > s.config.max_memory_hard_limit
        THEN IF s.config.overmemory_raise_error
             THEN Raise(close_subprocess(s1, youngest, FALSE),
                        "RuntimeError: overmemory", Free, Free)
             ELSE Raise(s1, "KeyError: start_time", Free, Free)
        ELSE [s1 EXCEPT !.pc = "poll"]

\* sample[i] is what psutil reports for the process of slot i at this call.
\* The mitigation branch reads task_information.loc[running_tasks, 'start_time']
\* (line 146); the dataframe built at lines 83-92 has no such column, so the
\* lookup raises KeyError before any process is killed.
check_memory_usage(s, sample) ==
    LET usage == [i \in Slots(s.config) |->
                     IF i \in running_processes(s) THEN sample[i] ELSE 0]
        total == SumOver(usage, Slots(s.config))
        s1 == [s EXCEPT !.process_memory_usage = usage,
                        !.total_memory_usage = total,
                        !.previous_running_tasks = <<>>,
                        !.previous_memory_usages = <<>>]
        s2 == [s1 EXCEPT
                 !.previous_running_tasks =
                     Take(s.current_task_assignments, running_processes(s)),
                 !.previous_memory_usages = Take(usage, running_processes(s))]
    IN  IF total > s.config.max_memory_hard_limit
        THEN IF s.config.overmemory_raise_error
             THEN Raise(s1, "RuntimeError: overmemory", Free, Free)
             ELSE IF total > s.config.max_memory
                  THEN Raise(s2, "KeyError: start_time", Free, Free)
                  ELSE [s2 EXCEPT !.pc = "poll"]
        ELSE [s1 EXCEPT !.pc = "poll"]

\* ---- _poll_subprocesses ------------------------------------------------------
\* Mutant: one message is received at a poll, not all that are queued.
look_for_updates_once(a_process) ==
    IF Len(a_process.pipe) > 0
    THEN [a_process EXCEPT !.update = Head(a_process.pipe),
                           !.pipe = Tail(a_process.pipe)]
    ELSE a_process

\* while a_process['pipe'].poll(): a_process['update'] = a_process['pipe'].recv()
\* (lines 238-239): recv() takes the oldest message of the pipe.
RECURSIVE look_for_updates(_)
look_for_updates(a_process) ==
    IF Len(a_process.pipe) > 0
    THEN look_for_updates([a_process EXCEPT !.update = Head(a_process.pipe),
                                            !.pipe = Tail(a_process.pipe)])
    ELSE a_process

\* Mutant: a worker that exited with a non-zero code is put back for a retry
\* instead of stopping the run.
RECURSIVE poll_from_retrying_failures(_, _)
poll_from_retrying_failures(s, i) ==
    IF i >= s.config.max_threads THEN s
    ELSE LET a_process == s.processes[i] IN
         IF ~a_process.process THEN poll_from_retrying_failures(s, i + 1)
         ELSE LET s1 == [s EXCEPT !.running_subprocesses = @ + 1] IN
              IF a_process.exited
              THEN poll_from_retrying_failures(
                       close_subprocess([s1 EXCEPT !.completed_subprocesses = @ + 1],
                                        i, a_process.exitcode = 0),
                       i + 1)
              ELSE poll_from_retrying_failures(
                       [s1 EXCEPT !.processes[i] = look_for_updates(a_process)], i + 1)

\* The for loop of lines 217-239 from slot i on.  A non-zero exit code raises at
\* once: slots after i are not looked at and lines 243-246 are not reached.
RECURSIVE poll_from(_, _)
poll_from(s, i) ==
    IF i >= s.config.max_threads THEN s
    ELSE LET a_process == s.processes[i] IN
         IF ~a_process.process THEN poll_from(s, i + 1)
         ELSE LET s1 == [s EXCEPT !.running_subprocesses = @ + 1] IN
              IF a_process.exited
              THEN LET s2 == [s1 EXCEPT !.completed_subprocesses = @ + 1] IN
                   IF a_process.exitcode = 0
                   THEN poll_from(close_subprocess(s2, i, TRUE), i + 1)
                   ELSE Raise(s2, "ValueError: process failed", i,
                              s2.current_task_assignments[i])
              ELSE poll_from([s1 EXCEPT !.processes[i] = look_for_updates(a_process)],
                             i + 1)

poll_subprocesses(s) ==
    LET s1 == poll_from([s EXCEPT !.completed_subprocesses = 0,
                                  !.running_subprocesses = 0], 0)
    IN  IF s1.pc = "error"
        THEN [s1 EXCEPT !.completed_subprocesses = s.completed_subprocesses,
                        !.running_subprocesses = s.running_subprocesses]
        ELSE [s1 EXCEPT
                !.current_max_threads =
                    IF s1.tasks_completed > s1.config.benchmarking_tasks
                    THEN s1.config.max_threads ELSE @,
                !.pc = "create"]

\* ---- _start_subprocess -------------------------------------------------------
\* time.time() at the start of a process: later than the start of every process
\* still held by a slot.
Now(s) ==
    LET started == {s.processes[i].start_time : i \in Slots(s.config)}
    IN  1 + CHOOSE m \in started : \A x \in started : x <= m

\* Mutant: the admitted task is left remaining_to_do = true.
start_subprocess_leaves_remaining(s, task_index) ==
    LET free == {i \in Slots(s.config) : s.current_task_assignments[i] = Free}
        subprocess_to_start == CHOOSE i \in free : \A j \in free : i <= j
    IN  [s EXCEPT
            !.current_task_assignments[subprocess_to_start] = task_index,
            !.expected_memory_usage =
                @ + s.task_information[task_index].expected_memory,
            !.processes[subprocess_to_start] =
                [process |-> TRUE, exited |-> FALSE, exitcode |-> 0,
                 start_time |-> Now(s),
                 update |-> "Initialising from main...", pipe |-> <<>>,
                 args |-> task_index]]

start_subprocess(s, task_index) ==
    LET free == {i \in Slots(s.config) : s.current_task_assignments[i] = Free} IN
    IF free = {} THEN Raise(s, "IndexError", Free, task_index)
    ELSE LET subprocess_to_start == CHOOSE i \in free : \A j \in free : i <= j IN
         [s EXCEPT
            !.current_task_assignments[subprocess_to_start] = task_index,
            !.task_information[task_index].remaining_to_do = FALSE,
            !.expected_memory_usage =
                @ + s.task_information[task_index].expected_memory,
            !.processes[subprocess_to_start] =
                [process |-> TRUE, exited |-> FALSE, exitcode |-> 0,
                 start_time |-> Now(s),
                 update |-> "Initialising from main...", pipe |-> <<>>,
                 args |-> task_index]]

\* ---- _create_subprocesses ----------------------------------------------------
\* Mutant: the mask compares with <= and lets through a task that needs exactly
\* the memory that is available.
valid_tasks_allowing_equal(s, available_memory) ==
    {k \in DOMAIN s.task_information :
        /\ s.task_information[k].remaining_to_do
        /\ s.task_information[k].expected_memory <= available_memory}

\* The rows the mask valid_tasks selects (lines 261-264).
valid_tasks(s, available_memory) ==
    {k \in DOMAIN s.task_information :
        /\ s.task_information[k].remaining_to_do
        /\ s.task_information[k].expected_memory < available_memory}

\* Mutant: the admission loop is limited by the thread count only, not by memory.
RECURSIVE create_loop_ignoring_memory(_, _, _, _)
create_loop_ignoring_memory(s, available_memory, subprocesses_started, max_subprocesses_to_start) ==
    IF /\ s.pc # "error"
       /\ subprocesses_started < max_subprocesses_to_start
       /\ \E k \in DOMAIN s.task_information : s.task_information[k].remaining_to_do
    THEN LET valid == {k \in DOMAIN s.task_information :
                          s.task_information[k].remaining_to_do}
             task_index == CHOOSE k \in valid : \A m \in valid : k <= m
         IN  create_loop_ignoring_memory(
                 start_subprocess(s, task_index),
                 available_memory - s.task_information[task_index].expected_memory,
                 subprocesses_started + 1,
                 max_subprocesses_to_start)
    ELSE s

\* The while loop of lines 259-274.
RECURSIVE create_loop(_, _, _, _)
create_loop(s, available_memory, subprocesses_started, max_subprocesses_to_start) ==
    IF /\ s.pc # "error"
       /\ available_memory > 0
       /\ subprocesses_started < max_subprocesses_to_start
       /\ valid_tasks(s, available_memory) # {}
    THEN LET valid == valid_tasks(s, available_memory)
             task_index == CHOOSE k \in valid : \A m \in valid : k <= m
         IN  create_loop(start_subprocess(s, task_index),
                         available_memory - s.task_information[task_index].expected_memory,
                         subprocesses_started + 1,
                         max_subprocesses_to_start)
    ELSE s

create_subprocesses(s) ==
    IF s.current_max_threads = Unset
    THEN Raise(s, "AttributeError: current_max_threads", Free, Free)
    ELSE create_loop(s,
                     s.config.max_memory
                         - MaxOf(s.total_memory_usage, s.expected_memory_usage),
                     0,
                     s.current_max_threads - Cardinality(running_processes(s)))

\* ---- run loop: the rest of one iteration after the poll (lines 374-383) ------
\* Mutant: new subprocesses are made only on the ticks whose poll found a worker
\* that had exited, not on the ticks that found no slot occupied.
admit_and_render_only_after_an_exit(s) ==
    LET s1 == IF s.completed_subprocesses > 0
              THEN create_subprocesses(s) ELSE s
    IN  IF s1.pc = "error" THEN s1
        ELSE IF s1.current_max_threads = Unset
             THEN Raise(s1, "AttributeError: current_max_threads", Free, Free)
             ELSE [s1 EXCEPT !.pc = "loop"]

\* render_console reads self.current_max_threads too (line 341).
admit_and_render(s) ==
    LET s1 == IF s.completed_subprocesses > 0 \/ s.running_subprocesses = 0
              THEN create_subprocesses(s) ELSE s
    IN  IF s1.pc = "error" THEN s1
        ELSE IF s1.current_max_threads = Unset
             THEN Raise(s1, "AttributeError: current_max_threads", Free, Free)
             ELSE [s1 EXCEPT !.pc = "loop"]

\* ---- SmartProcess (src/src/smartmultiprocessing/process.py) -------------------
\* One handle and the OS process behind it.  exitcode is <<>> for Python's None
\* and <<c>> for the code c.  result_pipe is the receiving end of the result
\* pipe: the pickled messages buffered in it, and the number of open sending
\* ends (none of either when the handle was made without fetch_result).
\* worker_at is where the child process is: "target" in the payload function,
\* "send" in pipe.send(result), "end" past it.  reaped: the parent has collected
\* the exit status of the process (Popen.poll), so the operating system no
\* longer has an entry for its pid.

\* A result whose bytes do not fit in the pipe's buffer.
LargeResult == 10 ^ PipeCapacity

\* What the payload function does: it returns a value or it raises.
Targets ==
    [returns : {TRUE}, value : (ArgBase .. (ArgBase + MaxValue)) \cup {LargeResult}]
        \cup {[returns |-> FALSE, value |-> 0]}

\* ForkingPickler.dumps / loads of Connection.send and Connection.recv: a
\* value travels as its bytes (here the decimal digits of the number).
pickle_dumps(value) == Digits(value)

pickle_loads(bytes) == ParseInt(bytes)

\* SmartProcess(target=..., fetch_result=...): lines 117-140.  With fetch_result
\* the arguments of the process hold the sending end of a new one-way pipe.
SmartProcess(target, fetch_result) ==
    [fetch_result |-> fetch_result,
     target |-> target,
     started |-> FALSE,
     alive |-> FALSE,
     exitcode |-> <<>>,
     worker_at |-> "target",
     reaped |-> FALSE,
     result_pipe |-> [buffer |-> <<>>,
                      senders |-> IF fetch_result THEN 1 ELSE 0]]

\* No call has been made on the handle yet.  returned holds the last call made
\* on the handle: its name, its join and timeout arguments, how it ended, and
\* the parity of the number of calls made so far.
NoCall ==
    [call |-> "None", kind |-> "None", value |-> 0,
     join |-> FALSE, timeout |-> "None", nth |-> 0]

\* The record of a call that ended as outcome, made after the call last.
Call(last, outcome, do_join, timeout) ==
    [call |-> outcome.call, kind |-> outcome.kind, value |-> outcome.value,
     join |-> do_join, timeout |-> timeout, nth |-> 1 - last.nth]

\* How a call ended: it returned value, or it raised the exception kind.
Returned(call, value) == [call |-> call, kind |-> "return", value |-> value]

Raised(call, kind) == [call |-> call, kind |-> kind, value |-> 0]

\* Popen.poll(), behind Process.is_alive(), Process.exitcode and Process.join():
\* waitpid collects the exit status of a process that has ended.
popen_poll(sp) ==
    IF sp.started /\ ~sp.alive THEN [sp EXCEPT !.reaped = TRUE] ELSE sp

\* SmartProcess.is_alive / get_exitcode
is_alive(sp) == sp.alive

get_exitcode(sp) == sp.exitcode

\* Mutant: the exit code is not looked at, every process that is not alive
\* counts as finished.
is_finished_ignoring_exitcode(sp) ==
    IF is_alive(sp) THEN "False" ELSE "True"

\* SmartProcess.is_finished: "True", "False", or the exception it raises.  The
\* test of line 264 is  get_exitcode() != 0 , which None satisfies too.
is_finished(sp) ==
    IF is_alive(sp) THEN "False"
    ELSE IF get_exitcode(sp) # <<0>> THEN "ProcessFailedError"
    ELSE "True"

\* Process.join(timeout) as get_result calls it: "AssertionError" for a process
\* that was never started, "blocked" while the process is alive and no timeout
\* ends the wait, else "joined" (with a timeout the process may still be alive).
process_join(sp, timeout) ==
    IF ~sp.started THEN "AssertionError"
    ELSE IF sp.alive /\ timeout = "None" THEN "blocked"
    ELSE "joined"

\* Connection.poll(pipe_timeout) on the receiving end: "True" when a message or
\* the end of the stream (no sending end left open) can be read, "False" when
\* the wait timed out, "blocked" when nothing ends the wait.
poll(sp, pipe_timeout) ==
    IF sp.result_pipe.buffer # <<>> \/ sp.result_pipe.senders = 0 THEN "True"
    ELSE IF pipe_timeout = "None" THEN "blocked"
    ELSE "False"

\* The call does not return in this state: it waits in join or in poll.
get_result_blocks(sp, do_join, timeout, pipe_timeout) ==
    /\ sp.fetch_result
    /\ \/ do_join /\ process_join(sp, timeout) = "blocked"
       \/ /\ ~(do_join /\ process_join(sp, timeout) = "AssertionError")
          /\ is_finished(sp) = "True"
          /\ poll(sp, pipe_timeout) = "blocked"

\* Mutant: the result pipe is read before the process is known to have ended.
get_result_reading_first(sp, do_join, timeout, pipe_timeout) ==
    IF ~sp.fetch_result
    THEN [sp |-> sp, returned |-> Raised("get_result", "ValueError")]
    ELSE IF sp.result_pipe.buffer # <<>>
    THEN [sp |-> [sp EXCEPT !.result_pipe.buffer = Tail(@)],
          returned |-> Returned("get_result",
                                pickle_loads(Head(sp.result_pipe.buffer)))]
    ELSE IF is_finished(sp) = "ProcessFailedError"
    THEN [sp |-> sp, returned |-> Raised("get_result", "ProcessFailedError")]
    ELSE IF is_finished(sp) = "False"
    THEN [sp |-> sp, returned |-> Raised("get_result", "ProcessStillRunningError")]
    ELSE [sp |-> sp, returned |-> Raised("get_result", "NoResultError")]

\* Mutant: the message is read with a peek and stays in the pipe.
get_result_keeping_message(sp, do_join, timeout, pipe_timeout) ==
    IF ~sp.fetch_result
    THEN [sp |-> sp, returned |-> Raised("get_result", "ValueError")]
    ELSE IF do_join /\ process_join(sp, timeout) = "AssertionError"
    THEN [sp |-> sp, returned |-> Raised("get_result", "AssertionError")]
    ELSE IF is_finished(sp) = "ProcessFailedError"
    THEN [sp |-> sp, returned |-> Raised("get_result", "ProcessFailedError")]
    ELSE IF is_finished(sp) = "False"
    THEN [sp |-> sp, returned |-> Raised("get_result", "ProcessStillRunningError")]
    ELSE IF sp.result_pipe.buffer = <<>>
    THEN [sp |-> sp, returned |-> Raised("get_result", "NoResultError")]
    ELSE [sp |-> sp,
          returned |-> Returned("get_result",
                                pickle_loads(Head(sp.result_pipe.buffer)))]

\* Mutant: the fetch_result test comes after the test of the process's end.
get_result_checking_capture_late(sp, do_join, timeout, pipe_timeout) ==
    IF do_join /\ process_join(sp, timeout) = "AssertionError"
    THEN [sp |-> sp, returned |-> Raised("get_result", "AssertionError")]
    ELSE IF is_finished(sp) = "ProcessFailedError"
    THEN [sp |-> sp, returned |-> Raised("get_result", "ProcessFailedError")]
    ELSE IF is_finished(sp) = "False"
    THEN [sp |-> sp, returned |-> Raised("get_result", "ProcessStillRunningError")]
    ELSE [sp |-> sp, returned |-> Raised("get_result", "ValueError")]

\* SmartProcess.get_result(join, timeout, pipe_timeout), lines 204-232, in a
\* state where it does not block: the handle after the call and how the call
\* ended.  recv on a pipe that is empty and closed raises EOFError (line 229).
get_result(sp, do_join, timeout, pipe_timeout) ==
    IF ~sp.fetch_result
    THEN [sp |-> sp, returned |-> Raised("get_result", "ValueError")]
    ELSE IF do_join /\ process_join(sp, timeout) = "AssertionError"
    THEN [sp |-> sp, returned |-> Raised("get_result", "AssertionError")]
    ELSE IF is_finished(sp) = "ProcessFailedError"
    THEN [sp |-> popen_poll(sp), returned |-> Raised("get_result", "ProcessFailedError")]
    ELSE IF is_finished(sp) = "False"
    THEN [sp |-> popen_poll(sp), returned |-> Raised("get_result", "ProcessStillRunningError")]
    ELSE IF poll(sp, pipe_timeout) = "False"
    THEN [sp |-> popen_poll(sp), returned |-> Raised("get_result", "NoResultError")]
    ELSE IF sp.result_pipe.buffer = <<>>
    THEN [sp |-> popen_poll(sp), returned |-> Raised("get_result", "NoResultError")]
    ELSE [sp |-> [popen_poll(sp) EXCEPT !.result_pipe.buffer = Tail(@)],
          returned |-> Returned("get_result",
                                pickle_loads(Head(sp.result_pipe.buffer)))]

\* SmartProcess.start(), lines 245-248.  Process.start() refuses a second start;
\* it hands the arguments (the sending end among them) to the child and drops
\* them in the parent.
start(sp) ==
    IF sp.started
    THEN [sp |-> sp, returned |-> Raised("start", "AssertionError")]
    ELSE [sp |-> [sp EXCEPT !.started = TRUE, !.alive = TRUE],
          returned |-> Returned("start", 0)]

\* The process has ended with the given exit code: its end of the pipe closes.
exited(sp, code) ==
    [sp EXCEPT !.alive = FALSE, !.exitcode = <<code>>, !.result_pipe.senders = 0]

\* pipe_return_function, lines 10-15, in the child: the payload function has
\* returned (with fetch_result the result is sent next) or has raised (the
\* process ends with exit code 1).
target_returns(sp) ==
    [sp EXCEPT !.worker_at = IF sp.fetch_result THEN "send" ELSE "end"]

\* pipe.send(result), line 15: the bytes go into the pipe when it has room for
\* them; until then the sender waits.
pipe_send(sp) ==
    [sp EXCEPT !.result_pipe.buffer = Append(@, pickle_dumps(sp.target.value)),
               !.worker_at = "end"]

\* ---- SmartProcess: children, stop signals, resource usage ----------------------
\* The processes a worker may start, by the order of their pids.  Each is
\* "none" (not started), "running" or "exited".
ChildIds == 1 .. MaxChildren

\* The control thread is in no call.  A frame holds the call in progress on the
\* handle (op) and where it is (at): "idle" when the call is over, and then the
\* frame still tells how the last call went.  cascade is its children argument,
\* running_at_call whether the process was alive when the call began, children
\* the list the enumeration returned, next the entry of that list the call
\* comes to next (0: the process itself), caught the number of NoSuchProcess
\* the call has passed over, cpu_usage and memory_usage the sums so far.
NoFrame ==
    [op |-> "none", at |-> "idle", cascade |-> FALSE, running_at_call |-> FALSE,
     children |-> <<>>, next |-> 0, caught |-> 0, cpu_usage |-> 0, memory_usage |-> 0]

\* An outcome of a library call: the exception it raises ("None": none) and,
\* without one, its value.
Value(v) == [raises |-> "None", value |-> v]

Raises(kind) == [raises |-> kind, value |-> <<>>]

\* What psutil reads for a process that exists: cpu_percent, pss or rss.  The
\* process of the handle reads 1, its child c reads 2^c, so that a sum tells
\* which processes are in it.
Reading(c) == 2 ^ c

\* psutil.Process.children(recursive=True) on the process of the handle, as a
\* set of possible outcomes.  A running process has its running children, a
\* process that has ended has none (they are handed over to init).  Once the
\* exit status of the process has been collected its pid names no process:
\* psutil raises NoSuchProcess (always so in psutil 5, and in any version when
\* the pid has been taken by a new process) or finds no children.
psutil_children(sp, kids) ==
    IF sp.reaped THEN {Raises("NoSuchProcess"), Value(<<>>)}
    ELSE IF ~sp.alive THEN {Value(<<>>)}
    ELSE {Value(Take([c \in ChildIds |-> c], {c \in ChildIds : kids[c] = "running"}))}

\* SmartProcess.get_children(), lines 149-152.  psutil_process is None until
\* start() has run (line 140, 248).
get_children(sp, kids) ==
    IF ~sp.started THEN {Raises("AttributeError")}
    ELSE psutil_children(sp, kids)

\* SmartProcess._children_in_arg(children), lines 142-147, for children given
\* as False or True.
children_in_arg(sp, kids, children) ==
    IF children = FALSE THEN {Value(<<>>)}
    ELSE get_children(sp, kids)

\* The name of the method that sends the signal.
StopName(sig) == IF sig = SIGTERM THEN "terminate" ELSE "kill"

StopSignal(op) == IF op = "terminate" THEN SIGTERM ELSE SIGKILL

\* Line 272 / 282: terminate(children) or kill(children) begins with the
\* enumeration of the children.  The result is the frame and how the call ended
\* if it has ('call |-> "None"': it goes on).
stop_begin(sp, kids, sig, children, outcome) ==
    LET fr == [NoFrame EXCEPT !.op = StopName(sig), !.cascade = children,
                              !.running_at_call = sp.alive]
    IN  IF outcome.raises # "None"
        THEN [frame |-> fr, returned |-> Raised(StopName(sig), outcome.raises)]
        ELSE [frame |-> [fr EXCEPT !.at = "process", !.children = outcome.value],
              returned |-> Raised("None", "None")]

\* Line 273 / 283: self.process.terminate() or kill().  Process.terminate() of
\* a process that was never started fails on its missing _popen; a process that
\* is alive ends with the negated signal number as its exit code; one that has
\* ended is left alone.
stop_process(sp, fr) ==
    IF ~sp.started
    THEN [sp |-> sp, frame |-> [fr EXCEPT !.at = "idle"],
          returned |-> Raised(fr.op, "AttributeError")]
    ELSE [sp |-> IF sp.alive THEN exited(sp, 0 - StopSignal(fr.op)) ELSE sp,
          frame |-> IF fr.children = <<>> THEN [fr EXCEPT !.at = "idle"]
                    ELSE [fr EXCEPT !.at = "children", !.next = 1],
          returned |-> IF fr.children = <<>> THEN Returned(fr.op, 0)
                       ELSE Raised("None", "None")]

\* psutil.Process.terminate() / kill() on a child: NoSuchProcess when the child
\* has ended.
psutil_stop(kids, c) ==
    IF kids[c] = "running" THEN Value(0) ELSE Raises("NoSuchProcess")

\* Mutant: the loop over the children has no try / except.
stop_child_without_except(fr, kids) ==
    LET c == fr.children[fr.next]
        last == fr.next = Len(fr.children)
    IN  IF psutil_stop(kids, c).raises # "None"
        THEN [kids |-> kids, frame |-> [fr EXCEPT !.at = "idle"],
              returned |-> Raised(fr.op, psutil_stop(kids, c).raises)]
        ELSE [kids |-> [kids EXCEPT ![c] = "exited"],
              frame |-> [fr EXCEPT !.next = @ + 1,
                                   !.at = IF last THEN "idle" ELSE "children"],
              returned |-> IF last THEN Returned(fr.op, 0) ELSE Raised("None", "None")]

\* Lines 274-278 / 284-288: one turn of the loop over the enumerated children.
stop_child(fr, kids) ==
    LET c == fr.children[fr.next]
        last == fr.next = Len(fr.children)
        gone == psutil_stop(kids, c).raises = "NoSuchProcess"
    IN  [kids |-> IF gone THEN kids ELSE [kids EXCEPT ![c] = "exited"],
         frame |-> [fr EXCEPT !.next = @ + 1,
                              !.caught = @ + (IF gone THEN 1 ELSE 0),
                              !.at = IF last THEN "idle" ELSE "children"],
         returned |-> IF last THEN Returned(fr.op, 0) ELSE Raised("None", "None")]

\* psutil's cpu_percent(), memory_full_info().pss and memory_info().rss of the
\* process of the handle (c = 0) or of its child c.
psutil_reading(sp, kids, c) ==
    IF c = 0
    THEN IF ~sp.started THEN Raises("AttributeError")
         ELSE IF sp.alive THEN Value(Reading(0)) ELSE Raises("NoSuchProcess")
    ELSE IF kids[c] = "running" THEN Value(Reading(c)) ELSE Raises("NoSuchProcess")

\* if_exists_cpu_percent, if_exists_memory_pss, if_exists_memory_rss (lines
\* 18-39): zero for a process that does not exist.
if_exists_cpu_percent(reading) ==
    IF reading.raises = "NoSuchProcess" THEN Value(0) ELSE reading

if_exists_memory_pss(reading) ==
    IF reading.raises = "NoSuchProcess" THEN Value(0) ELSE reading

\* Mutant: the rss of a child is read without the try / except.
if_exists_memory_rss_without_except(reading) == reading

if_exists_memory_rss(reading) ==
    IF reading.raises = "NoSuchProcess" THEN Value(0) ELSE reading

\* Line 197: resource_usage(children=...) begins with the enumeration of the
\* children (interval is None).
resource_usage_begin(sp, kids, children, outcome) ==
    LET fr == [NoFrame EXCEPT !.op = "resource_usage", !.cascade = children,
                              !.running_at_call = sp.alive]
    IN  IF outcome.raises # "None"
        THEN [frame |-> fr, returned |-> Raised("resource_usage", outcome.raises)]
        ELSE [frame |-> [fr EXCEPT !.at = "cpu", !.children = outcome.value],
              returned |-> Raised("None", "None")]

\* One reading of cpu_usage (lines 174-183) or of memory_usage (lines 158-166):
\* the process itself first, then each enumerated child; the memory readings
\* follow the cpu readings (lines 199-202).
resource_usage_step(sp, kids, fr) ==
    LET c == IF fr.next = 0 THEN 0 ELSE fr.children[fr.next]
        reading == IF fr.at = "cpu" THEN if_exists_cpu_percent(psutil_reading(sp, kids, c))
                   ELSE IF c = 0 THEN if_exists_memory_pss(psutil_reading(sp, kids, c))
                   ELSE if_exists_memory_rss(psutil_reading(sp, kids, c))
        last == fr.next = Len(fr.children)
        summed == IF fr.at = "cpu" THEN [fr EXCEPT !.cpu_usage = @ + reading.value]
                  ELSE [fr EXCEPT !.memory_usage = @ + reading.value]
    IN  IF reading.raises # "None"
        THEN [frame |-> [fr EXCEPT !.at = "idle"],
              returned |-> Raised("resource_usage", reading.raises)]
        ELSE IF ~last
        THEN [frame |-> [summed EXCEPT !.next = @ + 1],
              returned |-> Raised("None", "None")]
        ELSE IF fr.at = "cpu"
        THEN [frame |-> [summed EXCEPT !.at = "memory", !.next = 0],
              returned |-> Raised("None", "None")]
        ELSE [frame |-> [summed EXCEPT !.at = "idle"],
              returned |-> Returned("resource_usage", 0)]

\* The record of a call returning None.
ReturnedNone(call) == [call |-> call, kind |-> "return None", value |-> 0]

\* ---- inputs ------------------------------------------------------------------
ArgsOfLength(n) == [i \in 1 .. n |-> ArgBase + i]

Configs ==
    {c \in [max_threads : 1 .. MaxThreads,
            max_memory : 1 .. MaxMemory,
            max_memory_hard_limit : 1 .. (MaxMemory + 1),
            overmemory_raise_error : BOOLEAN,
            benchmarking_tasks : 0 .. MaxBenchmarking,
            args : {ArgsOfLength(n) : n \in 1 .. MaxTasks}] :
        c.max_memory_hard_limit \in {c.max_memory, c.max_memory + 1}}

\* The line an earlier run wrote for the task with args value a.
LoggedRow(a) == to_csv([NewRow(a) EXCEPT !.remaining_to_do = FALSE])

\* The log file before the first run of the model: absent or empty of rows, or
\* holding one row of an earlier run (of a configured task or of another one).
\* Runs that end in an error and are restarted build the longer logs.
InitialLogs ==
    {<<>>} \cup {<<LoggedRow(a)>> : a \in (ArgBase + 1) .. (ArgBase + MaxTasks)}

\* ---- specification -----------------------------------------------------------
\* The handler of run(); it uses no SmartProcess, the handle is left as made.
Init ==
    /\ \E cfg \in Configs, lg \in InitialLogs : Is(init(cfg, lg))
    /\ smart_process = SmartProcess([returns |-> FALSE, value |-> 0], FALSE)
    /\ returned = NoCall
    /\ child_processes = [c \in ChildIds |-> "none"]
    /\ frame = NoFrame

\* Mutant: the loop ends as soon as no task is left to admit.
RunLoopExit_when_nothing_to_admit ==
    /\ pc = "loop"
    /\ \A k \in DOMAIN task_information : ~task_information[k].remaining_to_do
    /\ pc' = "done"
    /\ UNCHANGED <<config, log, current_task_assignments, processes,
                   current_max_threads, tasks_total, tasks_completed,
                   task_information, process_memory_usage, total_memory_usage,
                   expected_memory_usage, completed_subprocesses,
                   running_subprocesses, previous_running_tasks,
                   previous_memory_usages, raised, killed, process_vars>>

\* while self.tasks_completed < self.tasks_total: (line 368), condition false
RunLoopExit ==
    /\ pc = "loop"
    /\ ~(tasks_completed < tasks_total)
    /\ pc' = "done"
    /\ UNCHANGED <<config, log, current_task_assignments, processes,
                   current_max_threads, tasks_total, tasks_completed,
                   task_information, process_memory_usage, total_memory_usage,
                   expected_memory_usage, completed_subprocesses,
                   running_subprocesses, previous_running_tasks,
                   previous_memory_usages, raised, killed, process_vars>>

\* psutil reports what the operating system holds for each process of an
\* occupied slot: a worker that has exited and waits to be polled has no memory
\* left (rss 0), a running one has any amount.
CheckMemoryUsage ==
    /\ pc = "loop"
    /\ tasks_completed < tasks_total
    /\ \E sample \in [running_processes(Self) -> 0 .. MaxSample] :
           /\ \A i \in running_processes(Self) : processes[i].exited => sample[i] = 0
           /\ Assign(check_memory_usage(Self, sample))
    /\ UNCHANGED process_vars

PollSubprocesses ==
    /\ pc = "poll"
    /\ Assign(poll_subprocesses(Self))
    /\ UNCHANGED process_vars

CreateSubprocesses ==
    /\ pc = "create"
    /\ Assign(admit_and_render(Self))
    /\ UNCHANGED process_vars

\* The worker of slot i exits by itself with the given code.
WorkerExit(i, code) ==
    /\ processes[i].process
    /\ ~processes[i].exited
    /\ processes' = [processes EXCEPT ![i].exited = TRUE, ![i].exitcode = code]
    /\ UNCHANGED <<config, log, current_task_assignments, current_max_threads,
                   tasks_total, tasks_completed, task_information,
                   process_memory_usage, total_memory_usage, expected_memory_usage,
                   completed_subprocesses, running_subprocesses,
                   previous_running_tasks, previous_memory_usages, pc, raised,
                   killed, process_vars>>

\* The program is run again with the same configuration against the same log
\* file, after a run has ended normally or with an exception.
Restart ==
    /\ pc \in {"done", "error"}
    /\ Assign(init(config, log))
    /\ UNCHANGED process_vars

Next ==
    \/ RunLoopExit
    \/ CheckMemoryUsage
    \/ PollSubprocesses
    \/ CreateSubprocesses
    \/ \E i \in Slots(config), code \in {0, FailureExitCode} : WorkerExit(i, code)
    \/ Restart

Spec == Init /\ [][Next]_vars

\* One run of the program: no restart.  The control thread keeps looping (it only
\* sleeps main_thread_sleep_time between iterations) and every worker process
\* ends at some point.
RunNext ==
    \/ RunLoopExit
    \/ CheckMemoryUsage
    \/ PollSubprocesses
    \/ CreateSubprocesses
    \/ \E i \in Slots(config), code \in {0, FailureExitCode} : WorkerExit(i, code)

FairSpec ==
    /\ Init
    /\ [][RunNext]_vars
    /\ WF_vars(RunLoopExit)
    /\ WF_vars(CheckMemoryUsage)
    /\ WF_vars(PollSubprocesses)
    /\ WF_vars(CreateSubprocesses)
    /\ \A i \in 0 .. (MaxThreads - 1) :
           WF_vars(i \in Slots(config) /\ \E code \in {0, FailureExitCode} : WorkerExit(i, code))

\* ---- specification of the update pipes ----------------------------------------
\* What a worker function passes to its logger (src/subprocesses/_test_subprocess.py);
\* the timestamp Logfile.__call__ puts in front is left out.
Messages == {"Starting test_waiter function", "Waiting completed!"}

\* The worker of slot i calls logger(message): Logfile.__call__ sends it down
\* the slot's pipe.
WorkerUpdate(i, message) ==
    /\ processes[i].process
    /\ ~processes[i].exited
    /\ Len(processes[i].pipe) < MaxQueued
    /\ processes' = [processes EXCEPT ![i].pipe = Append(@, message)]
    /\ UNCHANGED <<config, log, current_task_assignments, current_max_threads,
                   tasks_total, tasks_completed, task_information,
                   process_memory_usage, total_memory_usage, expected_memory_usage,
                   completed_subprocesses, running_subprocesses,
                   previous_running_tasks, previous_memory_usages, pc, raised,
                   killed, process_vars>>

\* A fresh run of four tasks on two slots, the workers sending updates as they
\* go.
UpdateInit ==
    /\ Is(init([max_threads |-> 2, max_memory |-> 3, max_memory_hard_limit |-> 3,
                overmemory_raise_error |-> FALSE, benchmarking_tasks |-> 1,
                args |-> ArgsOfLength(4)], <<>>))
    /\ smart_process = SmartProcess([returns |-> FALSE, value |-> 0], FALSE)
    /\ returned = NoCall
    /\ child_processes = [c \in ChildIds |-> "none"]
    /\ frame = NoFrame

UpdateNext ==
    \/ RunLoopExit
    \/ CheckMemoryUsage
    \/ PollSubprocesses
    \/ CreateSubprocesses
    \/ \E i \in Slots(config), code \in {0, FailureExitCode} : WorkerExit(i, code)
    \/ \E i \in Slots(config), message \in Messages : WorkerUpdate(i, message)

UpdateSpec == UpdateInit /\ [][UpdateNext]_vars

\* ---- specification of the handler with evictions ------------------------------
\* In run() the mitigation stops at line 146 before it reaches its call of
\* _kill_subprocess (line 152).  Here the method is applied as that call applies
\* it: between two ticks of the loop, while some slot holds a process, to the
\* index of a task of the ledger (the caller hands a task index over) and with
\* the caller's message.
KilledMessage == "KILLED due to overmemory"

\* A fresh run of four tasks on one or two slots.
EvictInit ==
    /\ \E max_threads \in 1 .. 2 :
           Is(init([max_threads |-> max_threads, max_memory |-> 3,
                    max_memory_hard_limit |-> 3, overmemory_raise_error |-> FALSE,
                    benchmarking_tasks |-> 1, args |-> ArgsOfLength(4)], <<>>))
    /\ smart_process = SmartProcess([returns |-> FALSE, value |-> 0], FALSE)
    /\ returned = NoCall
    /\ child_processes = [c \in ChildIds |-> "none"]
    /\ frame = NoFrame

KillSubprocess(index_to_kill) ==
    /\ pc = "loop"
    /\ tasks_completed < tasks_total
    /\ running_processes(Self) # {}
    /\ Assign(kill_subprocess(Self, index_to_kill, KilledMessage))
    /\ UNCHANGED process_vars

EvictNext ==
    \/ RunLoopExit
    \/ CheckMemoryUsage
    \/ PollSubprocesses
    \/ CreateSubprocesses
    \/ \E i \in Slots(config), code \in {0, FailureExitCode} : WorkerExit(i, code)
    \/ \E index_to_kill \in DOMAIN task_information : KillSubprocess(index_to_kill)

EvictSpec == EvictInit /\ [][EvictNext]_vars

\* ---- specification of one SmartProcess handle ---------------------------------
Timeouts == {"None", "finite"}

\* A handle is made for some payload function, with or without fetch_result; no
\* SubprocessHandler runs beside it.
ProcessInit ==
    /\ Is(init([max_threads |-> 1, max_memory |-> 1, max_memory_hard_limit |-> 1,
                overmemory_raise_error |-> FALSE, benchmarking_tasks |-> 1,
                args |-> ArgsOfLength(1)], <<>>))
    /\ \E target \in Targets, fetch_result \in BOOLEAN :
           smart_process = SmartProcess(target, fetch_result)
    /\ returned = NoCall
    /\ child_processes = [c \in ChildIds |-> "none"]
    /\ frame = NoFrame

Start ==
    /\ frame.at = "idle"
    /\ smart_process' = start(smart_process).sp
    /\ returned' = Call(returned, start(smart_process).returned, FALSE, "None")
    /\ UNCHANGED <<child_processes, frame, handler_vars>>

GetResult ==
    /\ frame.at = "idle"
    /\ \E do_join \in BOOLEAN, timeout \in Timeouts, pipe_timeout \in Timeouts :
           /\ ~get_result_blocks(smart_process, do_join, timeout, pipe_timeout)
           /\ smart_process' =
                  get_result(smart_process, do_join, timeout, pipe_timeout).sp
           /\ returned' =
                  Call(returned,
                       get_result(smart_process, do_join, timeout, pipe_timeout).returned,
                       do_join, timeout)
    /\ UNCHANGED <<child_processes, frame, handler_vars>>

\* The payload function returns in the child.
TargetReturns ==
    /\ smart_process.alive
    /\ smart_process.worker_at = "target"
    /\ smart_process.target.returns
    /\ smart_process' = target_returns(smart_process)
    /\ UNCHANGED <<returned, child_processes, frame, handler_vars>>

\* The payload function raises: the child ends with exit code 1.
TargetRaises ==
    /\ smart_process.alive
    /\ smart_process.worker_at = "target"
    /\ ~smart_process.target.returns
    /\ smart_process' = exited(smart_process, 1)
    /\ UNCHANGED <<returned, child_processes, frame, handler_vars>>

\* The child's pipe.send completes: the pipe has room for the bytes.
PipeSend ==
    /\ smart_process.alive
    /\ smart_process.worker_at = "send"
    /\ Len(pickle_dumps(smart_process.target.value)) <= PipeCapacity
    /\ smart_process' = pipe_send(smart_process)
    /\ UNCHANGED <<returned, child_processes, frame, handler_vars>>

\* The child runs off its end: exit code 0.
ProcessExit ==
    /\ smart_process.alive
    /\ smart_process.worker_at = "end"
    /\ smart_process' = exited(smart_process, 0)
    /\ UNCHANGED <<returned, child_processes, frame, handler_vars>>

\* The process is ended by a signal (Process.terminate(), Process.kill()): its
\* exit code is the negated signal number.
Signalled(sig) ==
    /\ smart_process.alive
    /\ smart_process' = exited(smart_process, 0 - sig)
    /\ UNCHANGED <<returned, child_processes, frame, handler_vars>>

ProcessNext ==
    \/ Start
    \/ GetResult
    \/ TargetReturns
    \/ TargetRaises
    \/ PipeSend
    \/ ProcessExit
    \/ \E sig \in {SIGTERM, SIGKILL} : Signalled(sig)

ProcessSpec == ProcessInit /\ [][ProcessNext]_vars

\* The worker is an OS process of its own: it is scheduled whatever the control
\* thread does, so each of its steps is taken if it stays possible.  Nothing is
\* assumed of the calls of the control thread or of signals.
FairProcessSpec ==
    /\ ProcessInit
    /\ [][ProcessNext]_vars
    /\ WF_vars(TargetReturns)
    /\ WF_vars(TargetRaises)
    /\ WF_vars(PipeSend)
    /\ WF_vars(ProcessExit)

\* ---- specification of a SmartProcess handle and the children of its process ---
\* A handle without result capture; the payload function starts processes of its
\* own, and the control thread samples and stops the tree.
TreeInit ==
    /\ Is(init([max_threads |-> 1, max_memory |-> 1, max_memory_hard_limit |-> 1,
                overmemory_raise_error |-> FALSE, benchmarking_tasks |-> 1,
                args |-> ArgsOfLength(1)], <<>>))
    /\ \E returns \in BOOLEAN :
           smart_process = SmartProcess([returns |-> returns, value |-> 0], FALSE)
    /\ returned = NoCall
    /\ child_processes = [c \in ChildIds |-> "none"]
    /\ frame = NoFrame

\* The control thread calls get_exitcode(): the exit status is collected.
GetExitcode ==
    /\ frame.at = "idle"
    /\ smart_process' = popen_poll(smart_process)
    /\ returned' = Call(returned,
                        IF get_exitcode(smart_process) = <<>>
                        THEN ReturnedNone("get_exitcode")
                        ELSE Returned("get_exitcode", get_exitcode(smart_process)[1]),
                        FALSE, "None")
    /\ UNCHANGED <<child_processes, frame, handler_vars>>

\* The payload function starts a process of its own.
Spawn(c) ==
    /\ smart_process.alive
    /\ smart_process.worker_at = "target"
    /\ child_processes[c] = "none"
    /\ \A b \in ChildIds : b < c => child_processes[b] # "none"
    /\ child_processes' = [child_processes EXCEPT ![c] = "running"]
    /\ UNCHANGED <<smart_process, returned, frame, handler_vars>>

\* A child of the worker ends by itself.
ChildExit(c) ==
    /\ child_processes[c] = "running"
    /\ child_processes' = [child_processes EXCEPT ![c] = "exited"]
    /\ UNCHANGED <<smart_process, returned, frame, handler_vars>>

\* The control thread calls terminate(children) or kill(children).
Stop(sig, children) ==
    /\ frame.at = "idle"
    /\ \E outcome \in children_in_arg(smart_process, child_processes, children) :
           LET r == stop_begin(smart_process, child_processes, sig, children, outcome)
           IN  /\ frame' = r.frame
               /\ returned' = IF r.returned.call = "None" THEN returned
                               ELSE Call(returned, r.returned, FALSE, "None")
    /\ UNCHANGED <<smart_process, child_processes, handler_vars>>

\* The call signals the process of the handle.
StopProcess ==
    /\ frame.at = "process"
    /\ LET r == stop_process(smart_process, frame)
       IN  /\ smart_process' = r.sp
           /\ frame' = r.frame
           /\ returned' = IF r.returned.call = "None" THEN returned
                           ELSE Call(returned, r.returned, FALSE, "None")
    /\ UNCHANGED <<child_processes, handler_vars>>

\* The call signals the next enumerated child.
StopChild ==
    /\ frame.at = "children"
    /\ LET r == stop_child(frame, child_processes)
       IN  /\ child_processes' = r.kids
           /\ frame' = r.frame
           /\ returned' = IF r.returned.call = "None" THEN returned
                           ELSE Call(returned, r.returned, FALSE, "None")
    /\ UNCHANGED <<smart_process, handler_vars>>

\* The control thread calls resource_usage(children=children).
ResourceUsage(children) ==
    /\ frame.at = "idle"
    /\ \E outcome \in children_in_arg(smart_process, child_processes, children) :
           LET r == resource_usage_begin(smart_process, child_processes, children, outcome)
           IN  /\ frame' = r.frame
               /\ returned' = IF r.returned.call = "None" THEN returned
                               ELSE Call(returned, r.returned, FALSE, "None")
    /\ UNCHANGED <<smart_process, child_processes, handler_vars>>

\* The call takes its next reading.
Sample ==
    /\ frame.at \in {"cpu", "memory"}
    /\ LET r == resource_usage_step(smart_process, child_processes, frame)
       IN  /\ frame' = r.frame
           /\ returned' = IF r.returned.call = "None" THEN returned
                           ELSE Call(returned, r.returned, FALSE, "None")
    /\ UNCHANGED <<smart_process, child_processes, handler_vars>>

TreeNext ==
    \/ Start
    \/ GetExitcode
    \/ TargetReturns
    \/ TargetRaises
    \/ ProcessExit
    \/ \E c \in ChildIds : Spawn(c)
    \/ \E c \in ChildIds : ChildExit(c)
    \/ \E sig \in {SIGTERM, SIGKILL}, children \in BOOLEAN : Stop(sig, children)
    \/ StopProcess
    \/ StopChild
    \/ \E children \in BOOLEAN : ResourceUsage(children)
    \/ Sample

TreeSpec == TreeInit /\ [][TreeNext]_vars

\* ---- vocabulary of the claims ------------------------------------------------
OccupiedSlots == {i \in Slots(config) : current_task_assignments[i] # Free}

AssignedTasks == {current_task_assignments[i] : i \in OccupiedSlots}

LoggedArgs == {read_csv(log[j]).args : j \in 1 .. Len(log)}

ConfiguredArgs == {config.args[j] : j \in 1 .. Len(config.args)}

Runnable == {k \in DOMAIN task_information : task_information[k].remaining_to_do}

FailedSlots ==
    {i \in Slots(config) :
        processes[i].process /\ processes[i].exited /\ processes[i].exitcode # 0}

\* ---- C1 -----------------------------------------------------------------------
\* C1: at every tick of the run loop the number of occupied slots is at most the
\* effective concurrency cap, the cap is 1 for as long as tasks_completed has
\* not exceeded benchmarking_tasks, and once the cap is max_threads no step of
\* the run lowers it.
C1_AdmissionNeverExceedsCapacity ==
    /\ [](pc = "loop" =>
             /\ Cardinality(OccupiedSlots) <= current_max_threads
             /\ (tasks_completed <= config.benchmarking_tasks
                     => current_max_threads = 1))
    /\ [][(pc \notin {"done", "error"} /\ current_max_threads = config.max_threads)
             => current_max_threads' = config.max_threads]_vars

\* ---- C2 -----------------------------------------------------------------------
\* C2: no task id is assigned to two slots at once: the non-sentinel values of
\* current_task_assignments are pairwise distinct (and each of them is a row of
\* the ledger).
C2_NoDoubleAssignment ==
    \A i \in Slots(config) :
        current_task_assignments[i] # Free =>
            /\ current_task_assignments[i] \in DOMAIN task_information
            /\ \A j \in Slots(config) :
                   j # i => current_task_assignments[j] # current_task_assignments[i]

\* Two slots are occupied at once, after an earlier task was closed.
C2_Witness ==
    /\ Cardinality(OccupiedSlots) >= 2
    /\ tasks_completed >= 1

\* ---- C3 -----------------------------------------------------------------------
\* C3: for every task of the ledger, remaining_to_do is false if and only if the
\* task is currently assigned to a slot or its row (its args value) is in the
\* durable completed-task log.
C3_LedgerSlotConsistency ==
    \A k \in DOMAIN task_information :
        (~task_information[k].remaining_to_do)
            <=> (k \in AssignedTasks \/ task_information[k].args \in LoggedArgs)

\* At a tick boundary of a resumed run the ledger holds, all at once, a row loaded
\* from the log, a task closed by this run, a task assigned to a slot and a task
\* still to do.
C3_Witness ==
    /\ pc = "loop"
    /\ Len(log) > tasks_completed
    /\ tasks_completed >= 1
    /\ OccupiedSlots # {}
    /\ Runnable # {}

\* ---- C4 -----------------------------------------------------------------------
\* C4: the sum of expected_memory over the tasks currently assigned to slots
\* does not exceed max_memory (after every admission, hence in every state, as
\* closes only lower the sum).
C4_AdmissionRespectsMemory ==
    SumOver([k \in DOMAIN task_information |-> task_information[k].expected_memory],
            AssignedTasks) <= config.max_memory

\* The memory budget is what stopped admission: after an admission step the cap
\* leaves a slot free and a task is still to do, yet only one task was admitted.
C4_Witness ==
    /\ pc = "loop"
    /\ Cardinality(OccupiedSlots) = 1
    /\ current_max_threads = 2
    /\ total_memory_usage = 0
    /\ completed_subprocesses > 0
    /\ Runnable # {}

\* ---- C5 -----------------------------------------------------------------------
\* C5: whenever the run loop exits normally, every task of the ledger has
\* remaining_to_do = false and a row in the durable log, and no slot is occupied.
C5_NormalExitMeansAllDone ==
    pc = "done" =>
        /\ \A k \in DOMAIN task_information :
               /\ ~task_information[k].remaining_to_do
               /\ task_information[k].args \in LoggedArgs
        /\ ConfiguredArgs \subseteq LoggedArgs
        /\ OccupiedSlots = {}
        /\ \A i \in Slots(config) : ~processes[i].process

\* The loop has exited normally after closing several tasks.
C5_Witness ==
    /\ pc = "done"
    /\ tasks_completed >= 2

\* ---- C6 -----------------------------------------------------------------------
\* Something outside the claim's hypotheses has happened: a worker has exited
\* with a non-zero code, or the observed total is above max_memory_hard_limit.
C6_HypothesisBroken ==
    \/ FailedSlots # {}
    \/ total_memory_usage > config.max_memory_hard_limit

\* C6: if the log leaves at least one runnable task (construction succeeds),
\* every task's expected_memory is below max_memory, every started worker
\* eventually exits with code 0 and the observed memory never exceeds
\* max_memory_hard_limit, then the run loop eventually stops (here even a stop by
\* an exception counts as one).
C6_RunLoopTerminates ==
    (/\ pc = "loop"
     /\ \A k \in DOMAIN task_information :
            task_information[k].expected_memory < config.max_memory)
        => <>(pc \in {"done", "error"} \/ C6_HypothesisBroken)

\* ---- C7 -----------------------------------------------------------------------
\* The ledger as construction left it: the run loop is at its top, nothing has
\* been closed and no slot is occupied, so nothing has been admitted yet.
C7_JustConstructed ==
    /\ pc = "loop"
    /\ tasks_completed = 0
    /\ OccupiedSlots = {}

\* C7: at ledger construction the tasks with remaining_to_do = true are exactly
\* the configured args values that do not appear in the durable log, once each,
\* and a task whose args value is in the log is never assigned to a slot.
C7_RunnableExcludesLogged ==
    /\ C7_JustConstructed =>
           /\ {task_information[k].args : k \in Runnable} = ConfiguredArgs \ LoggedArgs
           /\ Cardinality(Runnable) = Cardinality(ConfiguredArgs \ LoggedArgs)
    /\ \A i \in OccupiedSlots :
           task_information[current_task_assignments[i]].args \notin LoggedArgs

\* The scenario of the claim: the log holds the first configured args value and
\* the configuration names two; the runnable set is exactly the second.
C7_Witness ==
    /\ C7_JustConstructed
    /\ config.args = <<ArgBase + 1, ArgBase + 2>>
    /\ LoggedArgs = {ArgBase + 1}
    /\ {task_information[k].args : k \in Runnable} = {ArgBase + 2}

\* ---- C8 -----------------------------------------------------------------------
\* C8: over any sequence of runs against the same log file, every step leaves
\* the rows already in the log as they are, every row it appends is the row of a
\* task whose worker had exited with code 0, and no args value is in the log
\* twice.
C8_LogAppendOnlyOnSuccess ==
    /\ [][/\ Len(log') >= Len(log)
          /\ \A j \in 1 .. Len(log) : log'[j] = log[j]
          /\ \A j \in (Len(log) + 1) .. Len(log') :
                 \E i \in OccupiedSlots :
                     /\ processes[i].exited
                     /\ processes[i].exitcode = 0
                     /\ task_information[current_task_assignments[i]].args
                            = read_csv(log'[j]).args]_vars
    /\ [](\A j, m \in 1 .. Len(log) :
             read_csv(log[j]).args = read_csv(log[m]).args => j = m)

\* A run resumed from a non-empty log has appended a row of its own and then one
\* of its workers has failed.
C8_Witness ==
    /\ tasks_completed >= 1
    /\ Len(log) > tasks_completed
    /\ raised.kind = "ValueError: process failed"

\* ---- C9 -----------------------------------------------------------------------
\* C9: a poll that finds an occupied slot whose worker exited with a non-zero
\* code stops the run loop with an error naming such a slot and the task
\* assigned to it; from then on the run admits nothing and writes nothing, and
\* the failed task is not in the log.
C9_FailureIsFatal ==
    /\ [][(pc = "poll" /\ pc' # "poll" /\ FailedSlots # {}) =>
             /\ pc' = "error"
             /\ raised'.kind = "ValueError: process failed"
             /\ raised'.slot \in FailedSlots
             /\ raised'.task = current_task_assignments[raised'.slot]]_vars
    /\ [](raised.kind = "ValueError: process failed" =>
             /\ pc = "error"
             /\ raised.slot \in FailedSlots
             /\ current_task_assignments[raised.slot] = raised.task
             /\ ~task_information[raised.task].remaining_to_do
             /\ task_information[raised.task].args \notin LoggedArgs)
    /\ [][(raised.kind = "ValueError: process failed"
              /\ raised'.kind = "ValueError: process failed") =>
             UNCHANGED <<current_task_assignments, task_information, log>>]_vars

\* The run has stopped on the failure of the worker in slot 1 while it worked
\* on a task whose id is not the slot index.
C9_Witness ==
    /\ pc = "error"
    /\ raised.kind = "ValueError: process failed"
    /\ raised.slot = 1
    /\ raised.task # raised.slot

\* ---- C10 ----------------------------------------------------------------------
\* The occupied slot whose process was started most recently, ties broken by the
\* highest slot index.
C10_Youngest ==
    CHOOSE i \in OccupiedSlots :
        \A j \in OccupiedSlots :
            \/ processes[j].start_time < processes[i].start_time
            \/ (processes[j].start_time = processes[i].start_time /\ j <= i)

\* C10: a memory check that finds the total above max_memory_hard_limit (and
\* above max_memory) with overmemory_raise_error unset evicts: the most recently
\* started occupied slot is killed and freed.
C10_EvictsYoungest ==
    [][(/\ pc = "loop" /\ pc' # "loop" /\ pc' # "done"
        /\ ~config.overmemory_raise_error
        /\ total_memory_usage' > config.max_memory_hard_limit
        /\ total_memory_usage' > config.max_memory) =>
           /\ current_task_assignments'[C10_Youngest] = Free
           /\ ~processes'[C10_Youngest].process]_vars

\* ---- vocabulary of the mitigation claims ---------------------------------------
\* This step is a memory check that entered the mitigation branch: the total it
\* measured is above max_memory_hard_limit and overmemory_raise_error is unset.
MitigationStarts ==
    /\ pc = "loop"
    /\ previous_running_tasks' # <<>>

\* The slots this step has freed.
Evicted == {i \in OccupiedSlots : current_task_assignments'[i] = Free}

\* The memory measured by this step for the process of the occupied slot i.
MeasuredFor(i) ==
    previous_memory_usages'[Cardinality({j \in OccupiedSlots : j <= i})]

\* ---- C11 ----------------------------------------------------------------------
\* C11: a mitigation in which at least one running task's memory alone is below
\* max_memory ends with the total usage at or below max_memory, after at most
\* as many evictions as there were occupied slots, and the last eviction was
\* made while the usage was still above max_memory.
C11_EvictionTerminates ==
    [][(/\ MitigationStarts
        /\ \E i \in OccupiedSlots : MeasuredFor(i) < config.max_memory) =>
           /\ total_memory_usage' <= config.max_memory
           /\ Cardinality(Evicted) <= Cardinality(OccupiedSlots)
           /\ Evicted # {} =>
                  \E i \in Evicted :
                      total_memory_usage' + MeasuredFor(i) > config.max_memory]_vars

\* ---- C12 ----------------------------------------------------------------------
\* C12: a mitigation that can succeed (no running task alone is above
\* max_memory, so some task is left running whatever the order of eviction)
\* does not stop the run: the loop goes on to the poll, at least one slot was
\* evicted, and each evicted task is set back to remaining_to_do = true with
\* its slot freed, which is what lets a later admission step take it again.
C12_EvictedTaskRunsAgain ==
    [][(/\ MitigationStarts
        /\ \A i \in OccupiedSlots : MeasuredFor(i) <= config.max_memory) =>
           /\ pc' = "poll"
           /\ Evicted # {}
           /\ \A i \in Evicted :
                  /\ ~processes'[i].process
                  /\ task_information'[current_task_assignments[i]].remaining_to_do
                  /\ current_task_assignments[i] \in Runnable']_vars

\* ---- C13 ----------------------------------------------------------------------
\* C13: a mitigation that has to evict every occupied slot (each running task
\* alone is above max_memory) ends the run with the fatal error whose message
\* lists every task that was running when the mitigation started, each with
\* its own measured memory.
C13_AllEvictedIsFatal ==
    [][(/\ MitigationStarts
        /\ \A i \in OccupiedSlots : MeasuredFor(i) > config.max_memory) =>
           /\ pc' = "error"
           /\ raised'.kind = "RuntimeError: all subprocesses killed"
           /\ Evicted = OccupiedSlots
           /\ previous_running_tasks' = Take(current_task_assignments, OccupiedSlots)
           /\ Len(previous_memory_usages') = Cardinality(OccupiedSlots)]_vars

\* ---- C14 ----------------------------------------------------------------------
\* C14: a memory check that measures a total above max_memory_hard_limit while
\* overmemory_raise_error is set stops the run with the overmemory error; the
\* total it reports is the sum just measured, and the step kills no process and
\* changes no slot assignment, no ledger row and nothing in the log.
C14_OvermemoryRaisesUntouched ==
    /\ [][(/\ pc = "loop" /\ pc' # "loop" /\ pc' # "done"
           /\ config.overmemory_raise_error
           /\ total_memory_usage' > config.max_memory_hard_limit) =>
              /\ pc' = "error"
              /\ raised'.kind = "RuntimeError: overmemory"
              /\ total_memory_usage' = SumOver(process_memory_usage', Slots(config))
              /\ UNCHANGED <<current_task_assignments, processes, task_information,
                             log, tasks_completed, expected_memory_usage>>]_vars
    /\ [](raised.kind = "RuntimeError: overmemory" =>
             /\ pc = "error"
             /\ config.overmemory_raise_error
             /\ total_memory_usage > config.max_memory_hard_limit)

\* The run has stopped on an overmemory event with both slots occupied, one of
\* the two workers having already exited with code 0.
C14_Witness ==
    /\ pc = "error"
    /\ raised.kind = "RuntimeError: overmemory"
    /\ Cardinality(OccupiedSlots) = 2
    /\ \E i \in OccupiedSlots : processes[i].exited /\ processes[i].exitcode = 0

\* ---- C15 ----------------------------------------------------------------------
\* C15: the effective concurrency cap is 1 while fewer than benchmarking_tasks
\* tasks have completed, and at every admission step taken once
\* benchmarking_tasks tasks have completed (from the first one when
\* benchmarking_tasks = 0) the cap is max_threads.
C15_ThrottleLiftsAtBenchmarkCount ==
    pc \in {"loop", "poll", "create"} =>
        /\ tasks_completed < config.benchmarking_tasks => current_max_threads = 1
        /\ (pc = "create" /\ tasks_completed >= config.benchmarking_tasks)
               => current_max_threads = config.max_threads

\* ---- C16 ----------------------------------------------------------------------
\* C16: with max_threads = 2, max_memory = 3, benchmarking_tasks = 0 and two
\* runnable tasks of expected_memory 1 each, the first admission step puts the
\* first of them in slot 0 and the second in slot 1, and the memory left
\* available after both is 1.
C16_BothAdmittedInOneTick ==
    [][(/\ pc = "create"
        /\ config.max_threads = 2
        /\ config.max_memory = 3
        /\ config.benchmarking_tasks = 0
        /\ tasks_completed = 0
        /\ OccupiedSlots = {}
        /\ total_memory_usage = 0
        /\ Cardinality(Runnable) = 2
        /\ \A k \in Runnable : task_information[k].expected_memory = 1) =>
           /\ \A k \in Runnable :
                  current_task_assignments'[Cardinality({m \in Runnable : m < k})] = k
           /\ config.max_memory - expected_memory_usage' = 1]_vars

\* ---- vocabulary of the get_result claims -----------------------------------------
\* This step is a call of get_result on the handle.
GetResultCalled ==
    /\ returned'.nth # returned.nth
    /\ returned'.call = "get_result"

\* The process has ended with an exit code other than 0.
ExitedNonZero ==
    /\ smart_process.started
    /\ ~smart_process.alive
    /\ smart_process.exitcode # <<>>
    /\ smart_process.exitcode # <<0>>

\* The process has ended with exit code 0.
ExitedZero ==
    /\ smart_process.started
    /\ ~smart_process.alive
    /\ smart_process.exitcode = <<0>>

\* ---- C17 ----------------------------------------------------------------------
\* C17: get_result() without join, on a handle made with fetch_result whose
\* process has been started and has not yet exited, raises
\* ProcessStillRunningError and leaves the result pipe as it was.
C17_StillRunningConsumesNothing ==
    [][(/\ GetResultCalled
        /\ ~returned'.join
        /\ smart_process.fetch_result
        /\ smart_process.started
        /\ smart_process.alive) =>
           /\ returned'.kind = "ProcessStillRunningError"
           /\ smart_process' = smart_process]_vars

\* get_result() has raised ProcessStillRunningError for a process that is still
\* alive although its result is already in the pipe.
C17_Witness ==
    /\ returned.call = "get_result"
    /\ returned.kind = "ProcessStillRunningError"
    /\ ~returned.join
    /\ smart_process.alive
    /\ smart_process.result_pipe.buffer # <<>>

\* ---- C18 ----------------------------------------------------------------------
\* C18: get_result() on a handle (made with fetch_result, without which C20
\* applies) whose process has exited with a non-zero code, -15 and -9
\* included, raises ProcessFailedError, whatever its arguments: it returns no
\* value, raises no other error and reads nothing from the pipe (the handle
\* changes in nothing but the collection of the exit status by is_alive()).
C18_NonZeroExitIsProcessFailed ==
    [][(/\ GetResultCalled
        /\ smart_process.fetch_result
        /\ ExitedNonZero) =>
           /\ returned'.kind = "ProcessFailedError"
           /\ smart_process' = popen_poll(smart_process)]_vars

\* get_result() has raised ProcessFailedError for a process that was killed
\* after it had put its result in the pipe.
C18_Witness ==
    /\ returned.call = "get_result"
    /\ returned.kind = "ProcessFailedError"
    /\ smart_process.exitcode = <<0 - SIGKILL>>
    /\ smart_process.result_pipe.buffer # <<>>

\* ---- C19 ----------------------------------------------------------------------
\* C19: once the process has exited with code 0 having sent a value, the pipe
\* holds at most that one message and is never refilled; a get_result() that
\* finds the message returns exactly the value the payload function returned
\* and takes the message out, and every get_result() after that raises
\* NoResultError.
C19_ResultDeliveredExactlyOnce ==
    /\ [][(/\ GetResultCalled
           /\ smart_process.fetch_result
           /\ ExitedZero) =>
              IF smart_process.result_pipe.buffer # <<>>
              THEN /\ returned'.kind = "return"
                   /\ returned'.value = smart_process.target.value
                   /\ smart_process'.result_pipe.buffer = <<>>
              ELSE /\ returned'.kind = "NoResultError"
                   /\ smart_process' = popen_poll(smart_process)]_vars
    /\ [][(ExitedZero /\ smart_process.result_pipe.buffer = <<>>)
             => smart_process'.result_pipe.buffer = <<>>]_vars
    /\ [](ExitedZero => Len(smart_process.result_pipe.buffer) <= 1)

\* The second get_result() after a value of two digits was delivered: the
\* first call returned the value, this one has raised NoResultError.
C19_Witness ==
    /\ ExitedZero
    /\ returned.call = "get_result"
    /\ returned.kind = "NoResultError"
    /\ smart_process.target.returns
    /\ smart_process.target.value >= 10
    /\ smart_process.result_pipe.buffer = <<>>

Admitted == {k \in DOMAIN task_information : k \notin AssignedTasks /\ k \in AssignedTasks'}

\* available_memory as _create_subprocesses computes it on entry (line 254), and
\* as it stands when task k is picked: less the tasks admitted before k.
AvailableOnEntry ==
    config.max_memory - MaxOf(total_memory_usage, expected_memory_usage)

ExpectedMemory == [k \in DOMAIN task_information |-> task_information[k].expected_memory]

AvailableFor(k) ==
    AvailableOnEntry - SumOver(ExpectedMemory, {m \in Admitted : m < k})

\* The slot task k holds after the step.
SlotAfter(k) == CHOOSE i \in Slots(config) : current_task_assignments'[i] = k

\* C24: every admission picks the first task in ledger order that is still to do
\* and whose expected_memory is strictly below the memory available at that
\* moment (a task that needs exactly the available memory is not admitted),
\* places it in the lowest free slot and lowers the available memory by the
\* task's expected_memory.
C24_AdmissionIsFirstFit ==
    [][pc = "create" =>
          /\ \A k \in Admitted :
                 /\ task_information[k].remaining_to_do
                 /\ task_information[k].expected_memory < AvailableFor(k)
                 /\ \A m \in Runnable \ Admitted :
                        m < k => ~(task_information[m].expected_memory < AvailableFor(k))
                 /\ Cardinality({i \in Slots(config) \ OccupiedSlots : i < SlotAfter(k)})
                        = Cardinality({m \in Admitted : m < k})
          /\ expected_memory_usage'
                 = expected_memory_usage + SumOver(ExpectedMemory, Admitted)]_vars

\* An admission step has just filled slot 0 (every slot the poll saw was closed
\* by it) and stopped with a second slot free under the cap, because the task
\* next in line needs exactly the memory that is left.
C24_Witness ==
    /\ pc = "loop"
    /\ completed_subprocesses > 0
    /\ running_subprocesses = completed_subprocesses
    /\ OccupiedSlots = {0}
    /\ current_max_threads = 2
    /\ \E k \in Runnable : task_information[k].expected_memory = AvailableOnEntry

\* ---- C25 ----------------------------------------------------------------------
\* The slots whose worker has exited with code 0 and is not yet closed.
ExitedZeroSlots ==
    {i \in OccupiedSlots : processes[i].exited /\ processes[i].exitcode = 0}

\* C25: completed work is never lost to eviction.  No step of a run puts the task
\* of a worker that has exited with code 0 back to remaining_to_do = true, and a
\* tick in which mitigation starts still closes and persists it: after the
\* mitigation its row is in the log, or its slot is untouched and the tick goes
\* on to the poll that closes it.
C25_CompletedWorkSurvivesEviction ==
    [][pc \notin {"done", "error"} =>
          \A i \in ExitedZeroSlots :
              LET k == current_task_assignments[i] IN
              /\ ~task_information'[k].remaining_to_do
              /\ MitigationStarts =>
                     \/ task_information[k].args \in LoggedArgs'
                     \/ pc' = "poll" /\ current_task_assignments'[i] = k]_vars

\* ---- C27 ----------------------------------------------------------------------
\* A tick of the run loop ends: its last step returns to the head of the loop.
TickEnds == pc = "create" /\ pc' = "loop"

\* The condition of line 375, on what the poll of this tick returned.
AnythingChanged == completed_subprocesses > 0 \/ running_subprocesses = 0

\* available_memory of the admission once the tasks of this tick are admitted.
AvailableAfter == AvailableOnEntry - SumOver(ExpectedMemory, Admitted)

\* Nothing more could have been admitted: if a slot is free under the cap and
\* memory is available, no task still to do fits in it.
AdmissionExhausted ==
    (/\ Cardinality(OccupiedSlots') < current_max_threads'
     /\ AvailableAfter > 0)
        => \A k \in Runnable' : ~(task_information'[k].expected_memory < AvailableAfter)

\* C27 as stated: admission is attempted on every tick unconditionally, so at
\* the end of any tick, if a slot is free under the effective cap and the
\* available memory is positive, no remaining task has expected_memory below
\* the available memory.
C27_AdmissionOnEveryTick == [][TickEnds => AdmissionExhausted]_vars

\* C27 amended: admission is attempted on the ticks whose poll found a worker
\* that had exited or no slot occupied (the same gate as the resource-model
\* refresh); at the end of such a tick nothing more could have been admitted,
\* and a tick whose poll found neither admits nothing.
C27_AdmissionWhenAnythingChanged ==
    [][TickEnds => IF AnythingChanged THEN AdmissionExhausted ELSE Admitted = {}]_vars

\* A tick has just ended with nothing admitted although there was nothing left
\* running: a slot is free under the cap and a task is still to do, but it needs
\* at least the memory that is available.
C27_Witness ==
    /\ pc = "loop"
    /\ running_subprocesses = completed_subprocesses
    /\ completed_subprocesses > 0
    /\ OccupiedSlots = {}
    /\ Runnable # {}
    /\ current_max_threads > 0
    /\ AvailableOnEntry > 0

\* ---- C29 ----------------------------------------------------------------------
\* The configured tasks whose rows are in the durable log.
ConfiguredAndLogged == ConfiguredArgs \cap LoggedArgs

\* C29: at every tick tasks_completed equals the number of configured tasks
\* whose rows are in the durable log, so the remaining-task count of the status
\* snapshot, tasks_total - tasks_completed, is the number of configured tasks
\* not yet completed, and it is never negative.
C29_RemainingCountIsExact ==
    pc = "loop" =>
        /\ tasks_completed = Cardinality(ConfiguredAndLogged)
        /\ tasks_total - tasks_completed
               = Cardinality(ConfiguredArgs \ LoggedArgs)
        /\ tasks_total - tasks_completed >= 0

\* ---- C30 ----------------------------------------------------------------------
\* C30: when the run loop stops because some worker exited non-zero, every other
\* occupied slot whose worker had already exited with code 0 by that poll has
\* been closed and its task written to the durable log, whatever the slot
\* indices of the failed and of the successful workers.
C30_FailureStillPersistsSuccesses ==
    [][(pc = "poll" /\ raised'.kind = "ValueError: process failed") =>
          \A i \in ExitedZeroSlots :
              /\ current_task_assignments'[i] = Free
              /\ task_information[current_task_assignments[i]].args \in LoggedArgs']_vars

\* ---- C26 ----------------------------------------------------------------------
\* The slots that hold a process object: the ones a poll looks at.
SlotsWithProcess == {i \in Slots(config) : processes[i].process}

\* The control thread runs _poll_subprocesses.
PollStep == pc = "poll" /\ pc' # "poll"

\* After the poll step every message queued for slot i has been received, the
\* slot's update is the last message sent, and it is as it was when nothing was
\* queued.
Drained(i) ==
    /\ processes'[i].pipe = <<>>
    /\ processes'[i].update =
           IF processes[i].pipe = <<>> THEN processes[i].update
           ELSE processes[i].pipe[Len(processes[i].pipe)]

\* C26 as stated: at each poll, for every occupied slot, whether its worker is
\* still running or has exited since the last poll, all update messages queued
\* on its channel are consumed in send order, the slot's latest update becomes
\* the last message sent, and it is unchanged when nothing is queued.
C26_PollDrainsEveryOccupiedSlot ==
    [][PollStep => \A i \in SlotsWithProcess : Drained(i)]_vars

\* The poll reaches slot i: no slot before it holds a worker that exited
\* non-zero.
ReachedByPoll(i) == \A j \in FailedSlots : i <= j

\* C26 amended: at each poll, for every occupied slot the poll reaches whose
\* worker is still running, all queued update messages are consumed in send
\* order, the latest update becomes the last message sent and is unchanged when
\* nothing is queued.  The channel of a worker that has exited is not read: on
\* exit code 0 the slot is closed and its update reset to '-', on a non-zero exit
\* code the poll raises and leaves that slot and the slots after it as they are.
C26_PollDrainsRunningSlots ==
    [][PollStep =>
          \A i \in SlotsWithProcess :
              IF ~ReachedByPoll(i) \/ i \in FailedSlots
              THEN processes'[i] = processes[i]
              ELSE IF processes[i].exited
                   THEN processes'[i] = default_process_dict
                   ELSE Drained(i) /\ processes'[i].process]_vars

\* Right after a poll both slots hold running workers, nothing is left in their
\* pipes, and the slots show two different messages received from the workers.
C26_Witness ==
    /\ pc = "create"
    /\ \A i \in Slots(config) :
           processes[i].process /\ ~processes[i].exited /\ processes[i].pipe = <<>>
    /\ processes[0].update = "Waiting completed!"
    /\ processes[1].update = "Starting test_waiter function"

\* ---- C28 ----------------------------------------------------------------------
\* C28: the worker process started for a task is invoked with that task's own
\* args payload, the value under which the task is matched against and written
\* to the durable log, on a fresh run and on a run resumed from a non-empty log.
C28_WorkerGetsItsPayload ==
    \A i \in SlotsWithProcess :
        processes[i].args = task_information[current_task_assignments[i]].args

\* ---- C21 ----------------------------------------------------------------------
\* The process of the handle has ended, and so has every process it started.
AllExited ==
    /\ smart_process.started
    /\ ~smart_process.alive
    /\ \A c \in ChildIds : child_processes[c] # "running"

\* A call made on the handle ends with this step.
CallEnds == returned'.nth # returned.nth

\* A step of a terminate() or kill() call: its first one, or a later one.
StopStep ==
    \/ /\ frame.at = "idle"
       /\ \/ frame'.at = "process"
          \/ CallEnds /\ returned'.call \in {"terminate", "kill"}
    \/ frame.at \in {"process", "children"} /\ frame' # frame

\* C21: terminate() or kill(), with or without the children cascade, on a handle
\* whose process and whose children have already exited raises no error and
\* changes nothing, however often it is repeated.
C21_StopAfterExitIsHarmless ==
    [][(StopStep /\ AllExited) =>
          /\ CallEnds => returned'.kind = "return"
          /\ UNCHANGED <<smart_process, child_processes>>]_vars

\* ---- C22 ----------------------------------------------------------------------
\* A terminate(children=True) or kill(children=True) call that began on a
\* running process ends with this step.
CascadeEnds ==
    /\ frame.op \in {"terminate", "kill"}
    /\ frame.at \in {"process", "children"}
    /\ frame.cascade
    /\ frame.running_at_call
    /\ CallEnds

\* C22 as stated: after terminate(children=True) or kill(children=True) on a
\* running process, under any interleaving with the worker, which may start or
\* lose children meanwhile, the process is no longer alive and no child process
\* of it is left running; a child that exits before its own stop signal is sent
\* does not make the call fail.
C22_CascadeLeavesNothingRunning ==
    [][CascadeEnds =>
          /\ returned'.kind = "return"
          /\ ~smart_process'.alive
          /\ \A c \in ChildIds : child_processes'[c] # "running"]_vars

\* C22 amended: after such a call the process is no longer alive and no child
\* that was enumerated when the call began is left running; a child that exits
\* before its own stop signal is sent does not make the call fail.  A child the
\* worker starts after the enumeration is not signalled.
C22_CascadeStopsEnumeratedChildren ==
    [][CascadeEnds =>
          /\ returned'.kind = "return"
          /\ ~smart_process'.alive
          /\ \A k \in 1 .. Len(frame.children) :
                 child_processes'[frame.children[k]] # "running"]_vars

\* A cascade on a running process with two children has returned, one of the
\* children having ended before its own signal was sent.
C22_Witness ==
    /\ frame.at = "idle"
    /\ frame.op \in {"terminate", "kill"}
    /\ frame.cascade
    /\ frame.running_at_call
    /\ Len(frame.children) >= 2
    /\ frame.caught > 0
    /\ returned.call = frame.op
    /\ returned.kind = "return"

\* ---- C23 ----------------------------------------------------------------------
\* The process the next reading of resource_usage is taken from (0: the process
\* of the handle), and what it adds to the sum: its reading if it is alive now.
SampledProcess == IF frame.next = 0 THEN 0 ELSE frame.children[frame.next]

SampledAlive ==
    IF SampledProcess = 0 THEN smart_process.alive
    ELSE child_processes[SampledProcess] = "running"

Contribution == IF SampledAlive THEN Reading(SampledProcess) ELSE 0

\* A resource_usage call with children included takes a reading.
SampleStep ==
    /\ frame.op = "resource_usage"
    /\ frame.cascade
    /\ frame.at \in {"cpu", "memory"}
    /\ frame' # frame

\* C23: resource_usage() with children included never raises when a child, or
\* the process itself, exits between the enumeration of the children and the
\* sampling of that process: the exited process contributes zero CPU and zero
\* memory, and the totals returned are the sums over the processes still alive
\* when they are sampled.
C23_ExitedProcessesCountZero ==
    [][SampleStep =>
          /\ CallEnds => returned'.kind = "return"
          /\ frame'.cpu_usage =
                 frame.cpu_usage + (IF frame.at = "cpu" THEN Contribution ELSE 0)
          /\ frame'.memory_usage =
                 frame.memory_usage + (IF frame.at = "memory" THEN Contribution ELSE 0)]_vars

\* resource_usage(children=True) has returned for a process with two children,
\* all three counted for the CPU; by the memory readings some of them had ended.
C23_Witness ==
    /\ frame.at = "idle"
    /\ frame.op = "resource_usage"
    /\ frame.cascade
    /\ Len(frame.children) >= 2
    /\ returned.call = "resource_usage"
    /\ returned.kind = "return"
    /\ frame.cpu_usage = Reading(0) + Reading(1) + Reading(2)
    /\ frame.memory_usage < frame.cpu_usage
\* ---- C31 ----------------------------------------------------------------------
\* The slots a step frees, and the tasks that were assigned to them.
ClosedSlots ==
    {i \in Slots(config) : /\ current_task_assignments[i] # Free
                           /\ current_task_assignments'[i] = Free}

ClosedTasks == {current_task_assignments[i] : i \in ClosedSlots}

\* C31: a step that closes or evicts slots (a poll that finds workers ended
\* with code 0, or _kill_subprocess) changes, besides the counters and the log
\* file, only the entries of the slots it frees and the ledger rows of the
\* tasks that were assigned to them: every other slot keeps its assigned task,
\* its process entry and its sampled memory, every other ledger row is as it
\* was; and a step sends SIGKILL to a process only when it frees exactly one
\* slot, and then to the process that slot held.
C31_CloseTouchesOnlyItsSlot ==
    [][/\ ClosedSlots # {} =>
            /\ \A j \in Slots(config) \ ClosedSlots :
                   /\ current_task_assignments'[j] = current_task_assignments[j]
                   /\ processes'[j] = processes[j]
                   /\ process_memory_usage'[j] = process_memory_usage[j]
            /\ DOMAIN task_information' = DOMAIN task_information
            /\ \A k \in DOMAIN task_information \ ClosedTasks :
                   task_information'[k] = task_information[k]
       /\ killed' # killed =>
            \E i \in ClosedSlots :
                /\ ClosedSlots = {i}
                /\ killed' = Append(killed, processes[i].args)
                /\ processes[i].process]_vars

\* Two tasks were closed as completed and one was evicted while another worker
\* was running: the evicted task is to be done again, the freed slot shows the
\* message, the other slot still holds its running worker.
C31_Witness ==
    /\ Len(log) = 2
    /\ Len(killed) = 1
    /\ task_information[killed[1]].remaining_to_do
    /\ \E i, j \in Slots(config) :
           /\ i # j
           /\ current_task_assignments[i] = Free
           /\ processes[i].update = KilledMessage
           /\ current_task_assignments[j] \notin {Free, killed[1]}
           /\ processes[j].process
           /\ ~processes[j].exited
           /\ ~task_information[current_task_assignments[j]].remaining_to_do

\* ---- C32 ----------------------------------------------------------------------
\* C32: a worker started with result capture whose payload function returns
\* eventually exits, whether or not the result pipe has been read, so that
\* get_result(join=True) without a timeout is eventually not left waiting.
C32_WorkerWithResultExits ==
    (/\ smart_process.started
     /\ smart_process.fetch_result
     /\ smart_process.target.returns)
        ~> (/\ ~smart_process.alive
            /\ ~get_result_blocks(smart_process, TRUE, "None", "finite"))

====
